---- MODULE Spec2Model ----
(***************************************************************************)
(* CampusTrace: the item lifecycle and claim workflow held in the state of *)
(* the App component (src/App.tsx).  Every useState cell the workflow      *)
(* reads is a variable; every event handler reachable from the rendered    *)
(* JSX is an action whose guard is the JSX condition under which the       *)
(* control is rendered and whose effect is the handler's body.             *)
(*                                                                         *)
(* Texts are sequences of characters.  The long literals of INITIAL_ITEMS  *)
(* are abbreviated to their first two characters.  The fields type,        *)
(* location, date, imageUrl and createdAt of an item are never read by the *)
(* workflow and are left out of the item record.  The item sheet is modal: *)
(* while it is open the page behind it takes no click.                     *)
(*                                                                         *)
(* The toasts (notifications) and the two Text Assist calls of             *)
(* src/services/geminiService.ts are modelled too.  A Text Assist call is  *)
(* split at its await: the start step records the call, the return step    *)
(* draws the provider's outcome (a throw, no text, or a text) and writes   *)
(* the draft.  Answers are sequences of tokens.                            *)
(*                                                                         *)
(* Spec is the workflow.  ToastSpec runs the handlers with their toasts,   *)
(* AssistSpec the post form with Text Assist, BesideSpec a moderator's     *)
(* session with failing Text Assist calls in flight, FeedSpec the search   *)
(* and category filters of the feed, OrderSpec one session that submits    *)
(* several reports.                                                        *)
(*                                                                         *)
(* The item list is saved to localStorage after every write (App.tsx:137). *)
(* TwoClientSpec runs a second App instance on the same localStorage; of   *)
(* that instance only its own item list is kept, in peer.                  *)
(***************************************************************************)
EXTENDS Naturals, Sequences, FiniteSets

VARIABLES
    items,          \* useState<Item[]>            App.tsx:106
    currentUser,    \* useState<User | null>       App.tsx:110
    activeTab,      \* useState<Tab>               App.tsx:115
    selectedItem,   \* useState<Item | null>       App.tsx:116 (a snapshot)
    searchQuery,    \* useState('')                App.tsx:117
    activeCategory, \* useState<Category | 'ALL'>  App.tsx:121
    newItem,        \* useState<Partial<Item>>     App.tsx:123 (the draft)
    claimForm,      \* useState({message,contact}) App.tsx:133
    loginEmail,     \* useState('')                App.tsx:134
    now,            \* the last value read from Date.now()
    rnd,            \* number of item ids drawn from Math.random() so far
    notifications,  \* useState<Notification[]>   App.tsx:118 (the toasts)
    isAiLoading,    \* useState(false)            App.tsx:120
    aiCalls,        \* the Text Assist calls awaited at App.tsx:179 and 193
    store,          \* localStorage 'campus_items_m_v2'  App.tsx:107, 138
    peer            \* a second App instance on the same localStorage

vars == <<items, currentUser, activeTab, selectedItem, searchQuery,
          activeCategory, newItem, claimForm, loginEmail, now, rnd,
          notifications, isAiLoading, aiCalls, store, peer>>

\* the cells of the toasts and of Text Assist
assistVars == <<notifications, isAiLoading, aiCalls>>

\* the saved item list and the second instance
storeVars == <<store, peer>>

----------------------------------------------------------------------------
(* Bounds of the model *)

\* At most MaxPosts reports are submitted.
MaxPosts == 1

\* At most MaxToasts toasts are on the screen at a time.
MaxToasts == 1

\* At most MaxCalls Text Assist calls are awaited at a time.
MaxCalls == 2

\* At most MaxOrderPosts reports are submitted where the order of the
\* listings is looked at.
MaxOrderPosts == 2

----------------------------------------------------------------------------
(* Types: src/unnamed/part_001 (types.ts) *)

PENDING_APPROVAL == "PENDING_APPROVAL"
UNCLAIMED == "UNCLAIMED"
CLAIM_REQUESTED == "CLAIM_REQUESTED"
RETURNED == "RETURNED"

ItemStatus == {PENDING_APPROVAL, UNCLAIMED, CLAIM_REQUESTED, RETURNED}

Category == {"Electronics", "Books & Stationery", "Clothing & Accessories",
             "Keys", "Cards & IDs", "Other"}

Role == {"STUDENT", "ADMIN"}

Tab == {"HOME", "POST", "MY_TRACE", "ADMIN"}

\* null of User | null and of Item | null
NoUser == [id |-> <<"null", 0>>, email |-> "", role |-> "NONE"]

NoItem == [id |-> 0, title |-> <<>>, category |-> "Other", description |-> <<>>,
           status |-> "NONE", userId |-> <<"null", 0>>, claims |-> <<>>]

\* variant: the auth guard lets everybody through
loggedIn_NoAuthGuard == TRUE

\* App.tsx:254 if (!currentUser) the login screen is returned
loggedIn == currentUser # NoUser

\* no second instance is open
NoPeer == [open |-> FALSE, items |-> <<>>]

----------------------------------------------------------------------------
(* Texts *)

EmptyText == <<>>

\* String.prototype.toLowerCase, on the characters the model uses
lowerChar(c) ==
    CASE c = "M" -> "m"
      [] c = "S" -> "s"
      [] c = "B" -> "b"
      [] c = "H" -> "h"
      [] c = "D" -> "d"
      [] c = "F" -> "f"
      [] c = "K" -> "k"
      [] c = "O" -> "o"
      [] OTHER -> c

toLowerCase(s) == [i \in 1..Len(s) |-> lowerChar(s[i])]

\* String.prototype.includes
includes(s, sub) ==
    \E i \in 0..Len(s) :
        /\ i + Len(sub) <= Len(s)
        /\ \A j \in 1..Len(sub) : s[i + j] = sub[j]

----------------------------------------------------------------------------
(* Inputs the user can type or pick *)

Emails == {"a@uni.edu"}

\* the values Date.now() returns, in milliseconds; it never decreases
Times == {0, 1}

SearchInputs == {EmptyText, <<"d", "O">>}

CategoryInputs == {"ALL", "Keys"}

TitleInputs == {EmptyText, <<"K", "e">>}

DescriptionInputs == {EmptyText, <<"f", "o">>}

DraftCategoryInputs == {"Keys"}

MessageInputs == {EmptyText, <<"m", "y">>}

ContactInputs == {EmptyText, <<"c">>}

----------------------------------------------------------------------------
(* src/constants.ts: INITIAL_ITEMS *)

INITIAL_ITEMS ==
    << [id |-> 1, title |-> <<"M", "a">>, category |-> "Electronics",
        description |-> <<"S", "i">>, status |-> UNCLAIMED,
        userId |-> <<"user-", 1>>, claims |-> <<>>],
       [id |-> 2, title |-> <<"B", "l">>, category |-> "Other",
        description |-> <<"H", "y">>, status |-> UNCLAIMED,
        userId |-> <<"user-", 2>>, claims |-> <<>>],
       [id |-> 3, title |-> <<"D", "o">>, category |-> "Keys",
        description |-> <<"F", "o">>, status |-> PENDING_APPROVAL,
        userId |-> <<"user-", 3>>, claims |-> <<>>] >>

\* the draft a fresh form holds
EmptyDraft == [title |-> EmptyText, category |-> "Other", description |-> EmptyText]

EmptyClaimForm == [message |-> EmptyText, contact |-> EmptyText]

----------------------------------------------------------------------------
(* Array helpers *)

elems(s) == {s[i] : i \in DOMAIN s}

\* the item of the list with this id (NoItem when there is none)
itemById(list, id) ==
    IF \E i \in DOMAIN list : list[i].id = id
    THEN list[CHOOSE i \in DOMAIN list : list[i].id = id]
    ELSE NoItem

----------------------------------------------------------------------------
(* Derived listings: App.tsx:240-251, 575 *)

\* variant: the search looks at the title only
matchSearch_TitleOnly(it, q) == includes(toLowerCase(it.title), toLowerCase(q))

matchSearch(it, q) ==
    \/ includes(toLowerCase(it.title), toLowerCase(q))
    \/ includes(toLowerCase(it.description), toLowerCase(q))

matchCategory(it, cat) == cat = "ALL" \/ it.category = cat

isVisible(it, user) ==
    \/ it.status # PENDING_APPROVAL
    \/ it.userId = user.id
    \/ user.role = "ADMIN"

filteredItemsOf(list, q, cat, user) ==
    SelectSeq(list, LAMBDA it :
        matchSearch(it, q) /\ matchCategory(it, cat) /\ isVisible(it, user))

filteredItems == filteredItemsOf(items, searchQuery, activeCategory, currentUser)

\* variant: My Reports leaves out the reports that wait for approval
myItemsOf_ApprovedOnly(list, user) ==
    SelectSeq(list, LAMBDA it : it.userId = user.id /\ it.status # PENDING_APPROVAL)

myItemsOf(list, user) == SelectSeq(list, LAMBDA it : it.userId = user.id)

myItems == myItemsOf(items, currentUser)

myClaimsOf(list, user) ==
    SelectSeq(list, LAMBDA it :
        \E k \in DOMAIN it.claims : it.claims[k].userId = user.id)

myClaims == myClaimsOf(items, currentUser)

\* variant: the Active Claims card shows the item's status
displayedClaimStatus_ItemStatus(it, user) == it.status

\* App.tsx:551 it.claims.find(c => c.userId === currentUser.id)?.status
displayedClaimStatus(it, user) ==
    LET own == {k \in DOMAIN it.claims : it.claims[k].userId = user.id}
    IN  IF own = {} THEN "undefined"
        ELSE it.claims[CHOOSE k \in own : \A j \in own : k <= j].status

\* variant: the Moderator tab lists every item, not only the pending ones
pendingItems_AllItems(list) == list

\* the Moderator tab's list
pendingItems(list) == SelectSeq(list, LAMBDA it : it.status = PENDING_APPROVAL)

----------------------------------------------------------------------------
(* What is rendered: the JSX conditions *)

\* App.tsx:254 the auth guard returns the login screen when there is no user
loginScreenShown == ~loggedIn

\* App.tsx:616 the Admin nav button
adminNavShown(user) == user.role = "ADMIN"

\* App.tsx:566 the Moderator tab's content
adminTabShown(tab, user) == tab = "ADMIN"

\* App.tsx:625 the item sheet
sheetShown == loggedIn /\ selectedItem # NoItem

\* variant: the page takes no click while Text Assist is loading
pageShown_NotWhileAiLoading == loggedIn /\ ~sheetShown /\ ~isAiLoading

\* App.tsx:626 the sheet's backdrop is fixed inset-0 at z-[500], above the
\* header (z-[100], 309) and the navigation (z-[200], 603): while the sheet
\* is shown a click reaches the sheet's own controls or closes it, and the
\* controls of the page behind it get no click
pageShown == loggedIn /\ ~sheetShown

\* variant: the claim form is offered while a claim is requested too
claimFormShown_WhileRequested(sel, user) ==
    sel.userId # user.id /\ sel.status \in {UNCLAIMED, CLAIM_REQUESTED}

\* variant: the claim form is offered to the owner too
claimFormShown_OwnerToo(sel, user) == sel.status = UNCLAIMED

\* App.tsx:666 the claim form inside the sheet
claimFormShown(sel, user) ==
    sel.userId # user.id /\ sel.status = UNCLAIMED

\* variant: the Admin Overrides are rendered for every user
adminOverridesShown_Everyone(sel, user) == TRUE

\* App.tsx:701 the Admin Overrides inside the sheet
adminOverridesShown(sel, user) == user.role = "ADMIN"

\* the items a click can select: App.tsx:371 (feed), 523 (My Reports), 547 (Active Claims)
selectableItems ==
    CASE activeTab = "HOME" -> elems(filteredItems)
      [] activeTab = "MY_TRACE" -> elems(myItems) \cup elems(myClaims)
      [] OTHER -> {}

\* every listing rendered for the current viewer on the active tab
renderedListing(q, cat) ==
    IF ~loggedIn THEN {}
    ELSE CASE activeTab = "HOME" -> elems(filteredItemsOf(items, q, cat, currentUser))
           [] activeTab = "MY_TRACE" -> elems(myItems) \cup elems(myClaims)
           [] adminTabShown(activeTab, currentUser) -> elems(pendingItems(items))
           [] OTHER -> {}

----------------------------------------------------------------------------
(* Handlers as functions of the state they read *)

\* Math.random().toString(36).substr(2, 9): the n-th item id drawn, never
\* an id of INITIAL_ITEMS and never drawn twice
randomId(n) == Len(INITIAL_ITEMS) + n + 1

\* variant: a moderator's own report skips the approval queue
postedItem_AdminAutoApproved(draft, user, id) ==
    [id |-> id, title |-> draft.title, category |-> draft.category,
     description |-> draft.description,
     status |-> IF user.role = "ADMIN" THEN UNCLAIMED ELSE PENDING_APPROVAL,
     userId |-> user.id, claims |-> <<>>]

\* App.tsx:156-165
postedItem(draft, user, id) ==
    [id |-> id, title |-> draft.title, category |-> draft.category,
     description |-> draft.description, status |-> PENDING_APPROVAL,
     userId |-> user.id, claims |-> <<>>]

\* variant: the new report goes to the end of the list
handlePostItems_Appended(list, draft, user, id) ==
    list \o <<postedItem(draft, user, id)>>

handlePostItems(list, draft, user, id) == <<postedItem(draft, user, id)>> \o list

\* variant: the claim is appended and the item's status is left as it is
handleClaimSubmitItems_KeepsStatus(list, sel, claim) ==
    [i \in DOMAIN list |->
        IF list[i].id = sel.id
        THEN [list[i] EXCEPT !.claims = Append(@, claim)]
        ELSE list[i]]

\* variant: the new claim is put in front of the claims the item holds
handleClaimSubmitItems_Prepended(list, sel, claim) ==
    [i \in DOMAIN list |->
        IF list[i].id = sel.id
        THEN [list[i] EXCEPT !.status = CLAIM_REQUESTED, !.claims = <<claim>> \o @]
        ELSE list[i]]

\* App.tsx:207-214 (the claim's own random id is never read and is left out)
newClaim(form, user) ==
    [userId |-> user.id, userEmail |-> user.email,
     message |-> form.message, contact |-> form.contact, status |-> "PENDING"]

\* variant: the claimed item is written back from the sheet's snapshot, and
\* added when the list no longer holds it
handleClaimSubmitItems_FromSnapshot(list, sel, claim) ==
    LET claimed == [sel EXCEPT !.status = CLAIM_REQUESTED, !.claims = Append(@, claim)]
    IN  IF \E i \in DOMAIN list : list[i].id = sel.id
        THEN [i \in DOMAIN list |-> IF list[i].id = sel.id THEN claimed ELSE list[i]]
        ELSE Append(list, claimed)

\* App.tsx:216-218
handleClaimSubmitItems(list, sel, claim) ==
    [i \in DOMAIN list |->
        IF list[i].id = sel.id
        THEN [list[i] EXCEPT !.status = CLAIM_REQUESTED, !.claims = Append(@, claim)]
        ELSE list[i]]

\* variant: every moderator action but the delete leaves the item UNCLAIMED
statusMap_AlwaysUnclaimed(action) == UNCLAIMED

\* App.tsx:231-234
statusMap(action) == IF action = "APPROVE" THEN UNCLAIMED ELSE RETURNED

\* variant: mark-returned settles the claims of the item as APPROVED
handleAdminActionItems_SettlesClaims(list, id, action) ==
    IF action = "DELETE"
    THEN SelectSeq(list, LAMBDA it : it.id # id)
    ELSE [i \in DOMAIN list |->
            IF list[i].id = id
            THEN [list[i] EXCEPT
                     !.status = statusMap(action),
                     !.claims = [k \in DOMAIN @ |-> [@[k] EXCEPT !.status = "APPROVED"]]]
            ELSE list[i]]

\* variant: approve and mark-returned set the status of every item
handleAdminActionItems_EveryItem(list, id, action) ==
    IF action = "DELETE"
    THEN SelectSeq(list, LAMBDA it : it.id # id)
    ELSE [i \in DOMAIN list |-> [list[i] EXCEPT !.status = statusMap(action)]]

\* App.tsx:226-238
handleAdminActionItems(list, id, action) ==
    IF action = "DELETE"
    THEN SelectSeq(list, LAMBDA it : it.id # id)
    ELSE [i \in DOMAIN list |->
            IF list[i].id = id
            THEN [list[i] EXCEPT !.status = statusMap(action)]
            ELSE list[i]]

----------------------------------------------------------------------------
(* Initial state (App.tsx:106-134): a first visit, with nothing saved in   *)
(* localStorage, so items is INITIAL_ITEMS and there is no user.  The      *)
(* effect of App.tsx:137-139 has run once and has saved the item list.     *)

Init ==
    /\ items = INITIAL_ITEMS
    /\ currentUser = NoUser
    /\ activeTab = "HOME"
    /\ selectedItem = NoItem
    /\ searchQuery = EmptyText
    /\ activeCategory = "ALL"
    /\ newItem = EmptyDraft
    /\ claimForm = EmptyClaimForm
    /\ loginEmail = ""
    /\ now = 0
    /\ rnd = 0
    /\ notifications = <<>>
    /\ isAiLoading = FALSE
    /\ aiCalls = <<>>
    /\ store = items
    /\ peer = NoPeer

\* App.tsx:137-139 the effect that follows every setItems: the new item list
\* is written to localStorage
persistItems ==
    /\ store' = items'
    /\ UNCHANGED peer

----------------------------------------------------------------------------
(* Session: App.tsx:270-289, 321-326 *)

\* App.tsx:275 the email input of the login screen
SetLoginEmail(e) ==
    /\ loginScreenShown
    /\ loginEmail' = e
    /\ UNCHANGED <<items, currentUser, activeTab, selectedItem, searchQuery,
                   activeCategory, newItem, claimForm, now, rnd>>
    /\ UNCHANGED assistVars
    /\ UNCHANGED storeVars

\* 'u-' + Date.now() / 'a-' + Date.now()
userIdOf(role, t) == IF role = "ADMIN" THEN <<"a-", t>> ELSE <<"u-", t>>

\* App.tsx:279 (Enter Campus) and 285 (Admin Portal)
Login(role, t) ==
    /\ loginScreenShown
    /\ loginEmail # ""
    /\ t >= now
    /\ now' = t
    /\ currentUser' = [id |-> userIdOf(role, t), email |-> loginEmail, role |-> role]
    /\ UNCHANGED <<items, activeTab, selectedItem, searchQuery, activeCategory,
                   newItem, claimForm, loginEmail, rnd>>
    /\ UNCHANGED assistVars
    /\ UNCHANGED storeVars

\* App.tsx:322
Logout ==
    /\ pageShown
    /\ loggedIn
    /\ currentUser' = NoUser
    /\ UNCHANGED <<items, activeTab, selectedItem, searchQuery, activeCategory,
                   newItem, claimForm, loginEmail, now, rnd>>
    /\ UNCHANGED assistVars
    /\ UNCHANGED storeVars

----------------------------------------------------------------------------
(* Navigation and the feed's filters *)

\* App.tsx:604-621 the bottom navigation
SetActiveTab(tab) ==
    /\ pageShown
    /\ loggedIn
    /\ tab = "ADMIN" => adminNavShown(currentUser)
    /\ activeTab' = tab
    /\ UNCHANGED <<items, currentUser, selectedItem, searchQuery, activeCategory,
                   newItem, claimForm, loginEmail, now, rnd>>
    /\ UNCHANGED assistVars
    /\ UNCHANGED storeVars

\* App.tsx:341
SetSearchQuery(q) ==
    /\ pageShown
    /\ loggedIn /\ activeTab = "HOME"
    /\ searchQuery' = q
    /\ UNCHANGED <<items, currentUser, activeTab, selectedItem, activeCategory,
                   newItem, claimForm, loginEmail, now, rnd>>
    /\ UNCHANGED assistVars
    /\ UNCHANGED storeVars

\* App.tsx:349, 357
SetActiveCategory(cat) ==
    /\ pageShown
    /\ loggedIn /\ activeTab = "HOME"
    /\ activeCategory' = cat
    /\ UNCHANGED <<items, currentUser, activeTab, selectedItem, searchQuery,
                   newItem, claimForm, loginEmail, now, rnd>>
    /\ UNCHANGED assistVars
    /\ UNCHANGED storeVars

\* App.tsx:371, 523, 547: a click on a listed item opens the sheet on a snapshot
SelectItem(it) ==
    /\ pageShown
    /\ loggedIn
    /\ it \in selectableItems
    /\ selectedItem' = it
    /\ UNCHANGED <<items, currentUser, activeTab, searchQuery, activeCategory,
                   newItem, claimForm, loginEmail, now, rnd>>
    /\ UNCHANGED assistVars
    /\ UNCHANGED storeVars

\* App.tsx:626, 628, 695
CloseSheet ==
    /\ sheetShown
    /\ selectedItem' = NoItem
    /\ UNCHANGED <<items, currentUser, activeTab, searchQuery, activeCategory,
                   newItem, claimForm, loginEmail, now, rnd>>
    /\ UNCHANGED assistVars
    /\ UNCHANGED storeVars

----------------------------------------------------------------------------
(* The report form: App.tsx:415-511 *)

postFormShown == loggedIn /\ activeTab = "POST"

\* App.tsx:459
SetDraftTitle(t) ==
    /\ pageShown
    /\ postFormShown
    /\ newItem' = [newItem EXCEPT !.title = t]
    /\ UNCHANGED <<items, currentUser, activeTab, selectedItem, searchQuery,
                   activeCategory, claimForm, loginEmail, now, rnd>>
    /\ UNCHANGED assistVars
    /\ UNCHANGED storeVars

\* App.tsx:468
SetDraftCategory(c) ==
    /\ pageShown
    /\ postFormShown
    /\ newItem' = [newItem EXCEPT !.category = c]
    /\ UNCHANGED <<items, currentUser, activeTab, selectedItem, searchQuery,
                   activeCategory, claimForm, loginEmail, now, rnd>>
    /\ UNCHANGED assistVars
    /\ UNCHANGED storeVars

\* App.tsx:494
SetDraftDescription(d) ==
    /\ pageShown
    /\ postFormShown
    /\ newItem' = [newItem EXCEPT !.description = d]
    /\ UNCHANGED <<items, currentUser, activeTab, selectedItem, searchQuery,
                   activeCategory, claimForm, loginEmail, now, rnd>>
    /\ UNCHANGED assistVars
    /\ UNCHANGED storeVars

\* the inputs marked required hold a value (App.tsx:456, 491; the date and
\* location inputs, 475 and 483, are required too and are not in the record)
draftValid(draft) == draft.title # EmptyText /\ draft.description # EmptyText

\* App.tsx:152-173 handlePost, run on a form that holds draft
SubmitDraft(draft) ==
    /\ pageShown
    /\ postFormShown
    /\ draftValid(draft)
    /\ rnd' = rnd + 1
    /\ items' = handlePostItems(items, draft, currentUser, randomId(rnd))
    /\ newItem' = EmptyDraft
    /\ activeTab' = "MY_TRACE"
    /\ UNCHANGED <<currentUser, selectedItem, searchQuery, activeCategory,
                   claimForm, loginEmail, now>>
    /\ UNCHANGED <<isAiLoading, aiCalls>>
    /\ persistItems

\* handlePost, as long as fewer than MaxPosts reports were submitted
PostWith(draft) ==
    /\ rnd < MaxPosts
    /\ SubmitDraft(draft)

\* the submit button of the report form (App.tsx:416, 508)
Post == PostWith(newItem)

\* the user fills in the empty report form and submits it, taken as one step:
\* the onChange handlers write newItem only, and only handlePost reads it
FillAndPost(draft) ==
    /\ newItem = EmptyDraft
    /\ PostWith(draft)

----------------------------------------------------------------------------
(* The item sheet: App.tsx:625-712 *)

\* App.tsx:676, 682
SetClaimForm(m, c) ==
    /\ sheetShown
    /\ claimFormShown(selectedItem, currentUser)
    /\ claimForm' = [message |-> m, contact |-> c]
    /\ UNCHANGED <<items, currentUser, activeTab, selectedItem, searchQuery,
                   activeCategory, newItem, loginEmail, now, rnd>>
    /\ UNCHANGED assistVars
    /\ UNCHANGED storeVars

\* the inputs marked required (App.tsx:673, 679) hold a value
claimFormValid(form) == form.message # EmptyText /\ form.contact # EmptyText

\* App.tsx:203-224 handleClaimSubmit, run on a form that holds form
ClaimSubmitWith(form) ==
    /\ sheetShown
    /\ claimFormShown(selectedItem, currentUser)
    /\ claimFormValid(form)
    /\ items' = handleClaimSubmitItems(items, selectedItem, newClaim(form, currentUser))
    /\ selectedItem' = NoItem
    /\ claimForm' = EmptyClaimForm
    /\ UNCHANGED <<currentUser, activeTab, searchQuery, activeCategory, newItem,
                   loginEmail, now, rnd>>
    /\ UNCHANGED <<isAiLoading, aiCalls>>
    /\ persistItems

\* the submit button of the claim form (App.tsx:667, 684)
ClaimSubmit == ClaimSubmitWith(claimForm)

\* the user fills in the empty claim form and submits it, taken as one step:
\* the onChange handlers write claimForm only, and only handleClaimSubmit reads it
FillAndClaim(form) ==
    /\ claimForm = EmptyClaimForm
    /\ ClaimSubmitWith(form)

\* App.tsx:226-238 handleAdminAction, for the three places that call it
AdminAction(id, action) ==
    /\ items' = handleAdminActionItems(items, id, action)
    /\ UNCHANGED <<currentUser, activeTab, selectedItem, searchQuery,
                   activeCategory, newItem, claimForm, loginEmail, now, rnd>>
    /\ UNCHANGED <<isAiLoading, aiCalls>>
    /\ persistItems

\* App.tsx:705 Mark as Resolved
MarkReturned ==
    /\ sheetShown
    /\ adminOverridesShown(selectedItem, currentUser)
    /\ AdminAction(selectedItem.id, "MARK_RETURNED")

\* App.tsx:706 Delete Permanently
DeletePermanently ==
    /\ sheetShown
    /\ adminOverridesShown(selectedItem, currentUser)
    /\ AdminAction(selectedItem.id, "DELETE")

----------------------------------------------------------------------------
(* The Moderator tab: App.tsx:566-599 *)

\* App.tsx:586 Approve
Approve(it) ==
    /\ pageShown
    /\ loggedIn
    /\ adminTabShown(activeTab, currentUser)
    /\ it \in elems(pendingItems(items))
    /\ AdminAction(it.id, "APPROVE")

\* App.tsx:587 Reject
Reject(it) ==
    /\ pageShown
    /\ loggedIn
    /\ adminTabShown(activeTab, currentUser)
    /\ it \in elems(pendingItems(items))
    /\ AdminAction(it.id, "DELETE")

----------------------------------------------------------------------------
(* A second App instance (another tab of the browser) on the same          *)
(* localStorage, with a moderator logged in.  Of its cells only its item   *)
(* list matters to the first instance, through what it saves.              *)

\* the cells of the first instance
clientVars == <<items, currentUser, activeTab, selectedItem, searchQuery,
                activeCategory, newItem, claimForm, loginEmail, now, rnd,
                notifications, isAiLoading, aiCalls>>

\* App.tsx:106-109 the second instance starts and reads the saved item list
\* (its effect of 137-139 saves the list it has just read)
PeerOpen ==
    /\ ~peer.open
    /\ peer' = [open |-> TRUE, items |-> store]
    /\ UNCHANGED store
    /\ UNCHANGED clientVars

\* the tab of the second instance is closed
PeerClose ==
    /\ peer.open
    /\ peer' = NoPeer
    /\ UNCHANGED store
    /\ UNCHANGED clientVars

\* App.tsx:226-238 and 137-139 in the second instance: handleAdminAction on
\* its own item list, which is then saved
PeerAdminAction(id, action) ==
    /\ peer.open
    /\ peer' = [peer EXCEPT !.items = handleAdminActionItems(@, id, action)]
    /\ store' = peer'.items
    /\ UNCHANGED clientVars

\* App.tsx:586
PeerApprove(it) ==
    /\ it \in elems(pendingItems(peer.items))
    /\ PeerAdminAction(it.id, "APPROVE")

\* App.tsx:587
PeerReject(it) ==
    /\ it \in elems(pendingItems(peer.items))
    /\ PeerAdminAction(it.id, "DELETE")

\* App.tsx:705, on an item of the second instance's feed
PeerMarkAsResolved(it) ==
    /\ it \in elems(peer.items)
    /\ PeerAdminAction(it.id, "MARK_RETURNED")

\* App.tsx:706, on an item of the second instance's feed
PeerDeletePermanently(it) ==
    /\ it \in elems(peer.items)
    /\ PeerAdminAction(it.id, "DELETE")

----------------------------------------------------------------------------
(* Toasts: App.tsx:146-150.  A toast's random id serves its own removal    *)
(* only and is left out.                                                   *)

\* App.tsx:148 setNotifications(prev => [{ id, text, type }, ...prev])
addNotification(list, text, type) == <<[text |-> text, type |-> type]>> \o list

\* the handler's call of addNotification
Notify(text, type) ==
    /\ Len(notifications) < MaxToasts
    /\ notifications' = addNotification(notifications, text, type)

\* App.tsx:149 the timer of the oldest toast fires (every timer runs 4000 ms,
\* so the toasts leave in the order they came)
ExpireNotification ==
    /\ notifications # <<>>
    /\ notifications' = SubSeq(notifications, 1, Len(notifications) - 1)
    /\ UNCHANGED <<items, currentUser, activeTab, selectedItem, searchQuery,
                   activeCategory, newItem, claimForm, loginEmail, now, rnd,
                   isAiLoading, aiCalls>>
    /\ UNCHANGED storeVars

\* a specification that is not about the toasts leaves the cell out: the
\* handlers write it and read none of it
ToastsUntracked == UNCHANGED notifications

\* App.tsx:171
postNotification == [text |-> "Report submitted! Awaiting approval.", type |-> "INFO"]

\* App.tsx:223
claimNotification ==
    [text |-> "Claim submitted! The owner/admin will review it.", type |-> "SUCCESS"]

\* App.tsx:229, 236: `Item ${action.toLowerCase()}d!`
adminNotification(action) ==
    CASE action = "DELETE" -> [text |-> "Report deleted.", type |-> "INFO"]
      [] action = "APPROVE" -> [text |-> "Item approved!", type |-> "SUCCESS"]
      [] OTHER -> [text |-> "Item mark_returnedd!", type |-> "SUCCESS"]

\* the toasts that tell the user an operation was carried out
successNotifications ==
    {claimNotification} \cup
    {adminNotification(a) : a \in {"DELETE", "APPROVE", "MARK_RETURNED"}}

----------------------------------------------------------------------------
(* The handlers with their toasts *)

\* App.tsx:152-173, the report form filled in and submitted in one step
handlePost(draft) ==
    /\ FillAndPost(draft)
    /\ Notify(postNotification.text, postNotification.type)

\* App.tsx:203-224, the claim form filled in and submitted in one step
handleClaimSubmit(form) ==
    /\ FillAndClaim(form)
    /\ Notify(claimNotification.text, claimNotification.type)

\* App.tsx:226-238
handleAdminAction(id, action) ==
    /\ AdminAction(id, action)
    /\ Notify(adminNotification(action).text, adminNotification(action).type)

\* App.tsx:705
ClickMarkAsResolved ==
    /\ sheetShown
    /\ adminOverridesShown(selectedItem, currentUser)
    /\ handleAdminAction(selectedItem.id, "MARK_RETURNED")

\* App.tsx:706
ClickDeletePermanently ==
    /\ sheetShown
    /\ adminOverridesShown(selectedItem, currentUser)
    /\ handleAdminAction(selectedItem.id, "DELETE")

\* App.tsx:586
ClickApprove(it) ==
    /\ pageShown
    /\ adminTabShown(activeTab, currentUser)
    /\ it \in elems(pendingItems(items))
    /\ handleAdminAction(it.id, "APPROVE")

\* App.tsx:587
ClickReject(it) ==
    /\ pageShown
    /\ adminTabShown(activeTab, currentUser)
    /\ it \in elems(pendingItems(items))
    /\ handleAdminAction(it.id, "DELETE")

----------------------------------------------------------------------------
(* Text Assist: src/services/geminiService.ts, App.tsx:175-201.  A response *)
(* text is a sequence of tokens: the characters of a description, or a      *)
(* category name as one token, with white space around it.                  *)

Whitespace == {" "}

\* String.prototype.trim
trim(s) ==
    LET idx == {i \in DOMAIN s : s[i] \notin Whitespace}
    IN  IF idx = {} THEN <<>>
        ELSE SubSeq(s, CHOOSE i \in idx : \A j \in idx : i <= j,
                       CHOOSE i \in idx : \A j \in idx : i >= j)

\* what ai.models.generateContent does: it throws, or it answers without a
\* text, or it answers with a text
THROWN == [kind |-> "THROWN", text |-> <<>>]

NOTEXT == [kind |-> "NOTEXT", text |-> <<>>]

TextOutcome(t) == [kind |-> "TEXT", text |-> t]

EnhanceOutcomes ==
    {THROWN, NOTEXT, TextOutcome(<<>>), TextOutcome(<<" ">>),
     TextOutcome(<<" ", "F", "o", " ">>)}

CategorizeOutcomes ==
    {THROWN, NOTEXT, TextOutcome(<<>>), TextOutcome(<<" ">>),
     TextOutcome(<<"Keys", " ">>), TextOutcome(<<"Gadgets">>)}

\* geminiService.ts:22-33: response.text?.trim() || text, and text when the
\* call throws
enhanceDescription(text, outcome) ==
    IF outcome.kind = "TEXT" /\ trim(outcome.text) # <<>>
    THEN trim(outcome.text)
    ELSE text

\* the string a one-token text is
tokenString(s) == s[1]

\* geminiService.ts:35-46: response.text?.trim() || 'Other', and 'Other' when
\* the call throws
suggestCategory(title, description, outcome) ==
    IF outcome.kind = "TEXT" /\ trim(outcome.text) # <<>>
    THEN tokenString(trim(outcome.text))
    ELSE "Other"

\* the buttons of the report form
improveEnabled == ~isAiLoading /\ newItem.description # EmptyText

\* App.tsx:175-179 handleAiEnhance up to its await
AiEnhanceStart ==
    /\ pageShown
    /\ postFormShown
    /\ improveEnabled
    /\ Len(aiCalls) < MaxCalls
    /\ isAiLoading' = TRUE
    /\ aiCalls' = Append(aiCalls, [kind |-> "ENHANCE", text |-> newItem.description])
    /\ UNCHANGED <<items, currentUser, activeTab, selectedItem, searchQuery,
                   activeCategory, newItem, claimForm, loginEmail, now, rnd,
                   notifications>>
    /\ UNCHANGED storeVars

\* App.tsx:189-193 handleAiCategorize up to its await (the title and the
\* description it sends decide nothing the caller can see: the answer is
\* the service's choice)
AiCategorizeStart ==
    /\ pageShown
    /\ postFormShown
    /\ newItem.title # EmptyText
    /\ Len(aiCalls) < MaxCalls
    /\ isAiLoading' = TRUE
    /\ aiCalls' = Append(aiCalls, [kind |-> "CATEGORIZE", text |-> EmptyText])
    /\ UNCHANGED <<items, currentUser, activeTab, selectedItem, searchQuery,
                   activeCategory, newItem, claimForm, loginEmail, now, rnd,
                   notifications>>
    /\ UNCHANGED storeVars

removeAt(s, i) == SubSeq(s, 1, i - 1) \o SubSeq(s, i + 1, Len(s))

\* the draft after the awaited call i came back: App.tsx:180, 194
draftAfterAi(draft, call, outcome) ==
    IF call.kind = "ENHANCE"
    THEN [draft EXCEPT !.description = enhanceDescription(call.text, outcome)]
    ELSE [draft EXCEPT !.category = suggestCategory(draft.title, draft.description, outcome)]

\* App.tsx:181, 195
aiNotification(call) ==
    IF call.kind = "ENHANCE"
    THEN [text |-> "Description polished by AI!", type |-> "SUCCESS"]
    ELSE [text |-> "Category suggested by AI!", type |-> "SUCCESS"]

\* App.tsx:179-186 and 193-200: the awaited call i comes back with outcome
AiReturn(i, outcome) ==
    /\ i \in DOMAIN aiCalls
    /\ outcome \in (IF aiCalls[i].kind = "ENHANCE" THEN EnhanceOutcomes
                    ELSE CategorizeOutcomes)
    /\ newItem' = draftAfterAi(newItem, aiCalls[i], outcome)
    /\ isAiLoading' = FALSE
    /\ aiCalls' = removeAt(aiCalls, i)
    /\ UNCHANGED <<items, currentUser, activeTab, selectedItem, searchQuery,
                   activeCategory, claimForm, loginEmail, now, rnd>>
    /\ UNCHANGED storeVars

----------------------------------------------------------------------------

(* The workflow: sessions, navigation, and the five workflow operations.   *)
(* The forms are filled in and submitted in one step, and the feed keeps   *)
(* its initial filters (empty search, ALL), under which it lists every     *)
(* item any other filter would list.                                       *)

ValidDrafts ==
    {d \in [title : TitleInputs, category : DraftCategoryInputs,
            description : DescriptionInputs] : draftValid(d)}

ValidClaimForms ==
    {f \in [message : MessageInputs, contact : ContactInputs] : claimFormValid(f)}

Next ==
    \/ \E e \in Emails : SetLoginEmail(e)
    \/ \E role \in Role, t \in Times : Login(role, t)
    \/ Logout
    \/ \E tab \in Tab : SetActiveTab(tab)
    \/ \E it \in elems(items) : SelectItem(it)
    \/ CloseSheet
    \/ \E draft \in ValidDrafts : FillAndPost(draft) /\ ToastsUntracked
    \/ \E form \in ValidClaimForms : FillAndClaim(form) /\ ToastsUntracked
    \/ MarkReturned /\ ToastsUntracked
    \/ DeletePermanently /\ ToastsUntracked
    \/ \E it \in elems(items) : Approve(it) /\ ToastsUntracked
    \/ \E it \in elems(items) : Reject(it) /\ ToastsUntracked

Spec == Init /\ [][Next]_vars

(* The workflow with its toasts, for one login time.                       *)

ToastTimes == {0}

ToastNext ==
    \/ \E e \in Emails : SetLoginEmail(e)
    \/ \E role \in Role, t \in ToastTimes : Login(role, t)
    \/ Logout
    \/ \E tab \in Tab : SetActiveTab(tab)
    \/ \E it \in elems(items) : SelectItem(it)
    \/ CloseSheet
    \/ \E draft \in ValidDrafts : handlePost(draft)
    \/ \E form \in ValidClaimForms : handleClaimSubmit(form)
    \/ ClickMarkAsResolved
    \/ ClickDeletePermanently
    \/ \E it \in elems(items) : ClickApprove(it)
    \/ \E it \in elems(items) : ClickReject(it)
    \/ ExpireNotification

ToastSpec == Init /\ [][ToastNext]_vars

(* The report form with Text Assist, typed into field by field, for one    *)
(* login time.                                                             *)

AssistNext ==
    \/ \E e \in Emails : SetLoginEmail(e)
    \/ \E role \in Role, t \in ToastTimes : Login(role, t)
    \/ Logout
    \/ \E tab \in Tab : SetActiveTab(tab)
    \/ \E t \in TitleInputs : SetDraftTitle(t)
    \/ \E c \in DraftCategoryInputs : SetDraftCategory(c)
    \/ \E d \in DescriptionInputs : SetDraftDescription(d)
    \/ AiEnhanceStart
    \/ AiCategorizeStart
    \/ \E i \in 1..MaxCalls, o \in EnhanceOutcomes \cup CategorizeOutcomes :
          AiReturn(i, o) /\ ToastsUntracked
    \/ Post /\ ToastsUntracked

AssistSpec == Init /\ [][AssistNext]_vars

(* The workflow beside Text Assist calls that are slow, fail or never come *)
(* back, in the session of a moderator, to whom every operation is         *)
(* offered.                                                                *)

FailureOutcomes == {THROWN, NOTEXT, TextOutcome(<<" ">>)}

BesideNext ==
    \/ \E e \in Emails : SetLoginEmail(e)
    \/ \E t \in ToastTimes : Login("ADMIN", t)
    \/ \E tab \in Tab : SetActiveTab(tab)
    \/ \E t \in TitleInputs \ {EmptyText} : SetDraftTitle(t)
    \/ \E d \in DescriptionInputs \ {EmptyText} : SetDraftDescription(d)
    \/ AiEnhanceStart
    \/ AiCategorizeStart
    \/ \E i \in 1..MaxCalls, o \in FailureOutcomes : AiReturn(i, o) /\ ToastsUntracked
    \/ Post /\ ToastsUntracked
    \/ \E it \in elems(items) : SelectItem(it)
    \/ CloseSheet
    \/ \E form \in ValidClaimForms : FillAndClaim(form) /\ ToastsUntracked
    \/ MarkReturned /\ ToastsUntracked
    \/ DeletePermanently /\ ToastsUntracked
    \/ \E it \in elems(items) : Approve(it) /\ ToastsUntracked
    \/ \E it \in elems(items) : Reject(it) /\ ToastsUntracked

BesideSpec == Init /\ [][BesideNext]_vars

(* Browsing: the feed with its search box and category pills, the item     *)
(* sheet and the Moderator tab, for one login time.  No report is          *)
(* submitted.                                                              *)

FeedNext ==
    \/ \E e \in Emails : SetLoginEmail(e)
    \/ \E role \in Role, t \in ToastTimes : Login(role, t)
    \/ Logout
    \/ \E tab \in {"HOME", "ADMIN"} : SetActiveTab(tab)
    \/ \E q \in SearchInputs : SetSearchQuery(q)
    \/ \E cat \in CategoryInputs : SetActiveCategory(cat)
    \/ \E it \in elems(items) : SelectItem(it)
    \/ CloseSheet
    \/ \E form \in ValidClaimForms : FillAndClaim(form) /\ ToastsUntracked
    \/ MarkReturned /\ ToastsUntracked
    \/ DeletePermanently /\ ToastsUntracked
    \/ \E it \in elems(items) : Approve(it) /\ ToastsUntracked
    \/ \E it \in elems(items) : Reject(it) /\ ToastsUntracked

FeedSpec == Init /\ [][FeedNext]_vars

(* Two reports and what happens to them, in one session: a student's or a *)
(* moderator's.                                                           *)

OrderPost(draft) ==
    /\ rnd < MaxOrderPosts
    /\ newItem = EmptyDraft
    /\ SubmitDraft(draft)

OrderNext ==
    \/ \E e \in Emails : SetLoginEmail(e)
    \/ \E role \in Role, t \in ToastTimes : Login(role, t)
    \/ \E tab \in Tab : SetActiveTab(tab)
    \/ \E it \in elems(items) : SelectItem(it)
    \/ CloseSheet
    \/ \E draft \in ValidDrafts : OrderPost(draft) /\ ToastsUntracked
    \/ \E form \in ValidClaimForms : FillAndClaim(form) /\ ToastsUntracked
    \/ MarkReturned /\ ToastsUntracked
    \/ DeletePermanently /\ ToastsUntracked
    \/ \E it \in elems(items) : Approve(it) /\ ToastsUntracked
    \/ \E it \in elems(items) : Reject(it) /\ ToastsUntracked

OrderSpec == Init /\ [][OrderNext]_vars

(* Two instances on one localStorage: the first with a student or a        *)
(* moderator browsing, claiming and moderating, the second moderating.     *)

TwoClientNext ==
    \/ \E e \in Emails : SetLoginEmail(e)
    \/ \E role \in Role, t \in ToastTimes : Login(role, t)
    \/ \E tab \in {"HOME", "ADMIN"} : SetActiveTab(tab)
    \/ \E it \in elems(items) : SelectItem(it)
    \/ CloseSheet
    \/ \E form \in ValidClaimForms : FillAndClaim(form) /\ ToastsUntracked
    \/ MarkReturned /\ ToastsUntracked
    \/ DeletePermanently /\ ToastsUntracked
    \/ \E it \in elems(items) : Approve(it) /\ ToastsUntracked
    \/ \E it \in elems(items) : Reject(it) /\ ToastsUntracked
    \/ PeerOpen
    \/ PeerClose
    \/ \E it \in elems(peer.items) : PeerApprove(it)
    \/ \E it \in elems(peer.items) : PeerReject(it)
    \/ \E it \in elems(peer.items) : PeerMarkAsResolved(it)
    \/ \E it \in elems(peer.items) : PeerDeletePermanently(it)

TwoClientSpec == Init /\ [][TwoClientNext]_vars

----------------------------------------------------------------------------
(* Vocabulary of the properties *)

ids(list) == {list[i].id : i \in DOMAIN list}

\* every item id handed out so far
issuedIds == 1..(Len(INITIAL_ITEMS) + rnd)

\* every search text and category filter a listing is checked under
AllQueries == SearchInputs \cup {<<"f", "o">>, <<"K">>, <<"x">>}

AllFilters == Category \cup {"ALL"}

\* every identity a login can produce
AllUsers ==
    {[id |-> userIdOf(role, t), email |-> e, role |-> role] :
        role \in Role, t \in Times, e \in Emails}

isOwner(user, it) == it.userId = user.id

isAdmin(user) == user.role = "ADMIN"

\* this step moves the item from PENDING_APPROVAL to UNCLAIMED
approveStep(id) ==
    /\ itemById(items, id).status = PENDING_APPROVAL
    /\ itemById(items', id).status = UNCLAIMED

\* this step removes the item from the item list
deleteStep(id) == id \in ids(items) /\ id \notin ids(items')

\* this step appends a claim to the item or moves it to CLAIM_REQUESTED
claimStep(id) ==
    /\ id \in ids(items) /\ id \in ids(items')
    /\ \/ Len(itemById(items', id).claims) > Len(itemById(items, id).claims)
       \/ /\ itemById(items', id).status = CLAIM_REQUESTED
          /\ itemById(items, id).status # CLAIM_REQUESTED

----------------------------------------------------------------------------
(* C1: in every reachable state, a PENDING_APPROVAL item appears in a      *)
(* listing rendered for the logged-in viewer (feed under any search text   *)
(* and category filter, My Trace, Moderator list) only if the viewer owns  *)
(* it or is ADMIN.                                                         *)
C1_PendingListedOnlyForOwnerOrAdmin ==
    \A q \in AllQueries, cat \in AllFilters :
        \A it \in renderedListing(q, cat) :
            it.status = PENDING_APPROVAL =>
                isOwner(currentUser, it) \/ isAdmin(currentUser)

(* C2: no step taken while the logged-in user is not ADMIN moves an item   *)
(* from PENDING_APPROVAL to UNCLAIMED.                                     *)
C2_ApproveOnlyByAdmin ==
    [][\A id \in ids(items) : approveStep(id) => isAdmin(currentUser)]_vars

(* C3: no step removes an item unless the logged-in user is its owner or   *)
(* is ADMIN.                                                               *)
C3_DeleteOnlyByOwnerOrAdmin ==
    [][\A id \in ids(items) :
          deleteStep(id) =>
              isOwner(currentUser, itemById(items, id)) \/ isAdmin(currentUser)]_vars

(* C4: a step appends a claim to an item, or moves it to CLAIM_REQUESTED,  *)
(* only if the item's status in the item list is UNCLAIMED when the step   *)
(* is taken.                                                               *)
C4_ClaimOnlyWhenUnclaimed ==
    [][\A id \in ids(items) :
          claimStep(id) => itemById(items, id).status = UNCLAIMED]_vars

(* C5: in every reachable state no item holds a claim whose claimant id   *)
(* equals the item's owner id.                                             *)
C5_NoClaimByOwner ==
    \A it \in elems(items) :
        \A k \in DOMAIN it.claims : it.claims[k].userId # it.userId

\* the owner has their own UNCLAIMED item open in the sheet, and holds a
\* claim on somebody else's item
C5_Witness ==
    /\ sheetShown
    /\ isOwner(currentUser, selectedItem)
    /\ itemById(items, selectedItem.id).status = UNCLAIMED
    /\ selectedItem.status = UNCLAIMED
    /\ \E it \in elems(items) :
          \E k \in DOMAIN it.claims : it.claims[k].userId = currentUser.id

(* C6: a step moves an item to UNCLAIMED only from PENDING_APPROVAL, and   *)
(* changes nothing else of the item; no step moves a CLAIM_REQUESTED or    *)
(* RETURNED item to UNCLAIMED.                                             *)
C6_ApproveOnlyFromPending ==
    [][\A id \in ids(items) :
          (/\ id \in ids(items')
           /\ itemById(items', id).status = UNCLAIMED
           /\ itemById(items, id).status # UNCLAIMED)
          => /\ itemById(items, id).status = PENDING_APPROVAL
             /\ itemById(items', id) =
                    [itemById(items, id) EXCEPT !.status = UNCLAIMED]]_vars

\* the Moderator tab right after report '3' was approved, beside an item
\* that is CLAIM_REQUESTED or RETURNED: neither is offered for approval
C6_Witness ==
    /\ pageShown
    /\ adminTabShown(activeTab, currentUser)
    /\ itemById(items, 3).status = UNCLAIMED
    /\ \E it \in elems(items) : it.status \in {CLAIM_REQUESTED, RETURNED}
    /\ \A it \in elems(pendingItems(items)) : it.id # 3

\* this step moves the item to RETURNED
returnStep(id) ==
    /\ id \in ids(items) /\ id \in ids(items')
    /\ itemById(items, id).status # RETURNED
    /\ itemById(items', id).status = RETURNED

(* C7: a step moves an item to RETURNED only while the logged-in user is   *)
(* ADMIN, and changes nothing of the item but its status (its claims stay);*)
(* Mark as Resolved on an item the list holds, whatever its status and     *)
(* with or without claims, leaves it RETURNED.                             *)
C7_MarkReturnedByAdminAnyStatus ==
    [][/\ \A id \in ids(items) :
            returnStep(id) =>
                /\ isAdmin(currentUser)
                /\ itemById(items', id) =
                       [itemById(items, id) EXCEPT !.status = RETURNED]
       /\ MarkReturned =>
            \A it \in elems(items) :
                it.id = selectedItem.id =>
                    itemById(items', it.id) = [it EXCEPT !.status = RETURNED]]_vars

\* a moderator marked report '3' returned straight from PENDING_APPROVAL:
\* the sheet still shows the snapshot taken before, and there is no claim
C7_Witness ==
    /\ sheetShown
    /\ isAdmin(currentUser)
    /\ selectedItem.id = 3
    /\ selectedItem.status = PENDING_APPROVAL
    /\ itemById(items, 3).status = RETURNED
    /\ itemById(items, 3).claims = <<>>

\* the viewers a listing is computed for: every login, and every owner
viewers ==
    AllUsers \cup {[id |-> it.userId, email |-> "", role |-> "STUDENT"] :
                      it \in elems(INITIAL_ITEMS)}

\* the ids of the items some viewer's My Reports or My Claims holds
listedIds(list) ==
    UNION {ids(myItemsOf(list, u)) \cup ids(myClaimsOf(list, u)) : u \in viewers}

(* C8: after the step that deletes an item, and after every later step,    *)
(* no item with that id is in the item list, nor in the My Reports or the  *)
(* My Claims of any viewer.                                                *)
C8_DeletedStaysDeleted ==
    [][LET absent == issuedIds \ ids(items')
       IN  /\ \A id \in issuedIds : id \notin ids(items) => id \in absent
           /\ \A id \in issuedIds : deleteStep(id) => id \in absent
           /\ items' # items => absent \cap listedIds(items') = {}]_vars

\* the sheet opened on an item before its deletion is still open on it and
\* still offers the claim form
C8_Witness ==
    /\ sheetShown
    /\ selectedItem.id \notin ids(items)
    /\ claimFormShown(selectedItem, currentUser)

\* a delete control for the item is rendered for the current user
deleteOffered(id) ==
    \/ /\ sheetShown
       /\ adminOverridesShown(selectedItem, currentUser)
       /\ selectedItem.id = id
    \/ /\ pageShown
       /\ adminTabShown(activeTab, currentUser)
       /\ id \in ids(pendingItems(items))

(* C9: in every reachable state where a STUDENT is logged in and has an    *)
(* item of their own open, whatever its status, a delete of that item is   *)
(* offered to them.                                                        *)
C9_StudentOwnerCanDelete ==
    \A it \in elems(items) :
        (/\ sheetShown
         /\ currentUser.role = "STUDENT"
         /\ isOwner(currentUser, it)
         /\ selectedItem.id = it.id)
        => deleteOffered(it.id)

(* C10: every step that draws a new item id or lengthens the item list is  *)
(* taken by a logged-in user and puts exactly one new item in front of the *)
(* unchanged list: status PENDING_APPROVAL, owner the logged-in user, no   *)
(* claims, an id the list did not hold.                                    *)
C10_SubmitAddsOnePendingItem ==
    [][(rnd' # rnd \/ Len(items') > Len(items))
          => /\ loggedIn
             /\ rnd' = rnd + 1
             /\ Len(items') = Len(items) + 1
             /\ Tail(items') = items
             /\ Head(items').status = PENDING_APPROVAL
             /\ Head(items').userId = currentUser.id
             /\ Head(items').claims = <<>>
             /\ Head(items').id \notin ids(items)]_vars

\* a moderator's own report, just submitted, waits for approval
C10_Witness ==
    /\ isAdmin(currentUser)
    /\ activeTab = "MY_TRACE"
    /\ items # <<>>
    /\ Head(items).id = randomId(0)
    /\ Head(items).userId = currentUser.id
    /\ Head(items).status = PENDING_APPROVAL
    /\ Head(items).claims = <<>>

----------------------------------------------------------------------------
(* C11: in every reachable state every item of the item list has a title   *)
(* and a description that are not empty and a category of the closed       *)
(* enumeration, also when the draft's category came from Text Assist.      *)
C11_StoredItemsAreValid ==
    \A it \in elems(items) :
        /\ it.title # EmptyText
        /\ it.description # EmptyText
        /\ it.category \in Category

\* src/unnamed/part_003:83 ClaimSchema.message minlength
MinMessageLength == 20

(* C12: in every reachable state every claim stored on an item has a       *)
(* message of at least MinMessageLength characters.                        *)
C12_ClaimMessagesHaveMinLength ==
    \A it \in elems(items) :
        \A k \in DOMAIN it.claims : Len(it.claims[k].message) >= MinMessageLength

\* the outcomes the service answers with a text that is not blank
succeeded(outcome) == outcome.kind = "TEXT" /\ trim(outcome.text) # <<>>

\* the step in which the awaited call i comes back
returnStep_ai(i) == i \in DOMAIN aiCalls /\ aiCalls' = removeAt(aiCalls, i)

(* C13: enhanceDescription gives back its input text for every outcome     *)
(* that is a thrown error or an empty or missing text, and a step in which *)
(* an enhance call comes back with such an outcome leaves the draft's      *)
(* description as it was.                                                  *)
C13_FailedEnhanceLeavesDraft ==
    [][/\ \A text \in DescriptionInputs, o \in EnhanceOutcomes :
            ~succeeded(o) => enhanceDescription(text, o) = text
       /\ \A i \in DOMAIN aiCalls :
            (returnStep_ai(i) /\ aiCalls[i].kind = "ENHANCE")
            => \/ newItem'.description = newItem.description
               \/ \E o \in EnhanceOutcomes :
                     succeeded(o) /\ newItem'.description = trim(o.text)]_vars

(* C14: in every reachable state the draft's category is one of the six    *)
(* enumerated categories, whatever the AI service answered to a categorize *)
(* call.                                                                   *)
C14_DraftCategoryEnumerated == newItem.category \in Category

\* what the five operations need, said without the Text Assist cells
pageOpen == currentUser # NoUser /\ selectedItem = NoItem

sheetOpen == currentUser # NoUser /\ selectedItem # NoItem

submitOffered ==
    /\ pageOpen /\ activeTab = "POST"
    /\ newItem.title # EmptyText /\ newItem.description # EmptyText
    /\ rnd < MaxPosts

moderationOffered(it) ==
    pageOpen /\ activeTab = "ADMIN" /\ it.status = PENDING_APPROVAL

claimOffered ==
    /\ sheetOpen /\ claimForm = EmptyClaimForm
    /\ selectedItem.userId # currentUser.id /\ selectedItem.status = UNCLAIMED

overridesOffered == sheetOpen /\ currentUser.role = "ADMIN"

\* the item lists the five operations can leave, computed from the cells
\* that are not Text Assist's
coreResults ==
    {handlePostItems(items, newItem, currentUser, randomId(rnd))}
    \cup {handleClaimSubmitItems(items, selectedItem, newClaim(f, currentUser)) :
             f \in ValidClaimForms}
    \cup {handleAdminActionItems(items, id, a) :
             id \in ids(items) \cup {selectedItem.id},
             a \in {"APPROVE", "DELETE", "MARK_RETURNED"}}

(* C15: in every reachable state, with or without Text Assist calls        *)
(* awaited, submit, approve, reject, claim, mark-returned and delete are   *)
(* enabled exactly when the cells that are not Text Assist's offer them;   *)
(* every step that changes the item list leaves a list computed from those *)
(* cells alone; and a step in which a Text Assist call comes back leaves   *)
(* the item list as it was.                                                *)
C15_CoreOperationsIgnoreTextAssist ==
    /\ [](/\ (ENABLED Post) <=> submitOffered
          /\ \A it \in elems(items) : (ENABLED Approve(it)) <=> moderationOffered(it)
          /\ \A it \in elems(items) : (ENABLED Reject(it)) <=> moderationOffered(it)
          /\ (ENABLED (\E f \in ValidClaimForms : FillAndClaim(f))) <=> claimOffered
          /\ (ENABLED MarkReturned) <=> overridesOffered
          /\ (ENABLED DeletePermanently) <=> overridesOffered)
    /\ [][/\ items' # items => items' \in coreResults
          /\ \A i \in DOMAIN aiCalls : returnStep_ai(i) => items' = items]_vars

\* an enhance call is still awaited, and the report it was started for was
\* submitted meanwhile: the draft is fresh and the report is in the list
C15_Witness ==
    /\ isAiLoading
    /\ newItem = EmptyDraft
    /\ rnd = 1
    /\ \E i \in DOMAIN aiCalls :
          /\ aiCalls[i].kind = "ENHANCE"
          /\ Head(items).description = aiCalls[i].text
          /\ Head(items).status = PENDING_APPROVAL

\* the letters of the model in their two cases
CasePairs ==
    {<<"M", "m">>, <<"S", "s">>, <<"B", "b">>, <<"H", "h">>, <<"D", "d">>,
     <<"F", "f">>, <<"K", "k">>, <<"O", "o">>}

sameLetter(a, b) == a = b \/ <<a, b>> \in CasePairs \/ <<b, a>> \in CasePairs

\* sub occurs in s, letter case aside
occursIn(sub, s) ==
    \E k \in 0..(Len(s) - Len(sub)) :
        \A j \in 1..Len(sub) : sameLetter(s[k + j], sub[j])

\* the three rules of the Trace Feed
feedRules(it, user, q, cat) ==
    /\ it.status # PENDING_APPROVAL \/ isOwner(user, it) \/ isAdmin(user)
    /\ cat = "ALL" \/ cat = it.category
    /\ occursIn(q, it.title) \/ occursIn(q, it.description)

(* C16: in every reachable state, for every viewer, search text and        *)
(* category filter, the Trace Feed computed from the item list holds       *)
(* exactly the items that are visible to the viewer, are of the category   *)
(* (or the filter is ALL) and hold the search text in their title or       *)
(* description, letter case aside; an empty search text leaves every item  *)
(* in; and the feed on the screen is the one for the search text and       *)
(* filter typed and the user logged in.                                    *)
C16_FeedIsTheThreeRules ==
    /\ \A user \in viewers, q \in AllQueries, cat \in AllFilters :
          elems(filteredItemsOf(items, q, cat, user)) =
              {it \in elems(items) : feedRules(it, user, q, cat)}
    /\ \A it \in elems(items) : occursIn(EmptyText, it.title)
    /\ loggedIn =>
          elems(filteredItems) =
              {it \in elems(items) :
                  feedRules(it, currentUser, searchQuery, activeCategory)}

\* a moderator searches "dO" among the Keys and gets the pending report
\* 'Do...' and not the others
C16_Witness ==
    /\ pageShown /\ activeTab = "HOME" /\ isAdmin(currentUser)
    /\ searchQuery = <<"d", "O">>
    /\ activeCategory = "Keys"
    /\ Len(filteredItems) = 1
    /\ filteredItems[1].id = 3
    /\ filteredItems[1].status = PENDING_APPROVAL
    /\ Len(items) > 1

(* C17: in every reachable state, My Reports computed for any viewer holds *)
(* exactly the items whose owner id is the viewer's id, whatever their     *)
(* status, and the My Reports on the screen is the one of the user logged  *)
(* in; and an item that is in a viewer's My Reports before a step is in it *)
(* after the step unless the step removes the item from the item list.     *)
C17_MyReportsAreTheOwnedItems ==
    /\ [](/\ \A user \in viewers :
                elems(myItemsOf(items, user)) =
                    {it \in elems(items) : it.userId = user.id}
          /\ loggedIn =>
                elems(myItems) = {it \in elems(items) : it.userId = currentUser.id})
    /\ [][items' # items =>
             \A user \in viewers :
                 \A id \in ids(myItemsOf(items, user)) :
                     id \in ids(items') => id \in ids(myItemsOf(items', user))]_vars

\* a student's My Trace lists their own report while it waits for approval
C17_Witness ==
    /\ pageShown /\ activeTab = "MY_TRACE"
    /\ currentUser.role = "STUDENT"
    /\ \E it \in elems(myItems) :
          /\ it.status = PENDING_APPROVAL
          /\ it.userId = currentUser.id
          /\ it.id = randomId(0)

\* the statuses a claim can have: src/unnamed/part_001:34
ClaimStatus == {"PENDING", "APPROVED", "REJECTED"}

(* C18: in every reachable state, My Claims computed for any viewer holds  *)
(* exactly the items with at least one claim whose claimant id is the      *)
(* viewer's id, and the status shown on the card of each such item is the  *)
(* status of a claim on it whose claimant is that viewer: a claim status,  *)
(* never the item's status.                                                *)
C18_MyClaimsShowOwnClaimStatus ==
    \A user \in viewers :
        /\ elems(myClaimsOf(items, user)) =
               {it \in elems(items) :
                   \E k \in DOMAIN it.claims : it.claims[k].userId = user.id}
        /\ \A it \in elems(myClaimsOf(items, user)) :
              /\ \E k \in DOMAIN it.claims :
                    /\ it.claims[k].userId = user.id
                    /\ displayedClaimStatus(it, user) = it.claims[k].status
              /\ displayedClaimStatus(it, user) \in ClaimStatus
              /\ displayedClaimStatus(it, user) # it.status

\* a student's Active Claims shows PENDING on the item they have just
\* claimed, whose own status is CLAIM_REQUESTED
C18_Witness ==
    /\ pageShown /\ activeTab = "MY_TRACE"
    /\ currentUser.role = "STUDENT"
    /\ \E it \in elems(myClaims) :
          /\ it.status = CLAIM_REQUESTED
          /\ it.userId # currentUser.id
          /\ displayedClaimStatus(it, currentUser) = "PENDING"

\* the ids of a listing, in its order
idSeq(list) == [i \in DOMAIN list |-> list[i].id]

\* listing holds its items in the order list holds them
inOrderOf(listing, list) ==
    idSeq(listing) = SelectSeq(idSeq(list), LAMBDA id : id \in ids(listing))

\* the item was created by a submit (the n-th submit gives it randomId(n-1))
submitted(it) == it.id > Len(INITIAL_ITEMS)

(* C19: in every reachable state, of two items created by submit the one   *)
(* submitted later comes first in the item list, and the feed, My Reports, *)
(* My Claims and the Moderator list of every viewer hold their items in    *)
(* the order of the item list; a submit puts the new item in front of the  *)
(* unchanged order, and every other step leaves the items that remain in   *)
(* the order they had.                                                     *)
C19_NewestFirst ==
    /\ [](/\ \A i, j \in DOMAIN items :
                (i < j /\ submitted(items[i]) /\ submitted(items[j]))
                => items[i].id > items[j].id
          /\ inOrderOf(pendingItems(items), items)
          /\ \A user \in viewers :
                /\ inOrderOf(myItemsOf(items, user), items)
                /\ inOrderOf(myClaimsOf(items, user), items)
                /\ \A q \in SearchInputs, cat \in CategoryInputs :
                      inOrderOf(filteredItemsOf(items, q, cat, user), items))
    /\ [][items' # items =>
             IF Len(items') > Len(items)
             THEN Tail(idSeq(items')) = idSeq(items)
             ELSE idSeq(items') =
                      SelectSeq(idSeq(items), LAMBDA id : id \in ids(items'))]_vars

\* both reports are in the list, the second in front of the first, after
\* the first was approved and an initial item was deleted
C19_Witness ==
    /\ Len(items) >= 2
    /\ items[1].id = randomId(1)
    /\ items[2].id = randomId(0)
    /\ items[2].status # PENDING_APPROVAL
    /\ Len(items) < Len(INITIAL_ITEMS) + 2

(* C20: a step taken while the sheet is open on an item id the item list   *)
(* no longer holds (the only way an operation can name such an id) leaves  *)
(* the item list unchanged and adds no toast that tells the user a claim,  *)
(* a mark-returned or a delete was carried out.                            *)
C20_MissingItemIsRejected ==
    [][(sheetShown /\ selectedItem.id \notin ids(items))
          => /\ items' = items
             /\ Len(notifications') > Len(notifications)
                   => Head(notifications') \notin successNotifications]_vars

----------------------------------------------------------------------------
(* C21: with two instances on one saved item list, no step writes the      *)
(* saved list from a stale read: an item that the saved list no longer     *)
(* holds is not put back into it, and an item of the saved list that left  *)
(* PENDING_APPROVAL is not saved as PENDING_APPROVAL again.                *)
C21_NoStaleWrite ==
    [][\A id \in issuedIds :
          /\ id \notin ids(store) => id \notin ids(store')
          /\ (id \in ids(store) /\ id \in ids(store'))
                => (itemById(store, id).status # PENDING_APPROVAL
                       => itemById(store', id).status # PENDING_APPROVAL)]_vars

\* the claims of the item with this id that the step has added
addedClaims(id) ==
    LET old == itemById(items, id).claims
        new == itemById(items', id).claims
    IN  {new[k] : k \in (DOMAIN new) \ (DOMAIN old)}

(* C22: in every reachable state where no user is logged in, submit,       *)
(* claim, approve, reject, mark-returned and delete are not enabled; every *)
(* step that changes the item list is taken while a user is logged in; and *)
(* the item or the claim such a step creates carries that user's id.       *)
C22_NoMutationWithoutCaller ==
    /\ [](currentUser = NoUser =>
            /\ ~ENABLED (\E d \in ValidDrafts : FillAndPost(d))
            /\ ~ENABLED (\E f \in ValidClaimForms : FillAndClaim(f))
            /\ ~ENABLED MarkReturned
            /\ ~ENABLED DeletePermanently
            /\ ~ENABLED (\E it \in elems(items) : Approve(it))
            /\ ~ENABLED (\E it \in elems(items) : Reject(it)))
    /\ [][items' # items =>
             /\ currentUser # NoUser
             /\ Len(items') > Len(items) => Head(items').userId = currentUser.id
             /\ \A id \in ids(items) \cap ids(items') :
                   \A c \in addedClaims(id) : c.userId = currentUser.id]_vars

\* nobody is logged in after a moderator left from the Moderator tab, which
\* still lists a pending report, and the item list holds a claim made before
C22_Witness ==
    /\ currentUser = NoUser
    /\ activeTab = "ADMIN"
    /\ pendingItems(items) # <<>>
    /\ \E it \in elems(items) : it.claims # <<>>

(* C23: the lifecycle can be walked through.  In every reachable state the *)
(* next operation of the sequence is enabled for the user it belongs to: a *)
(* student on the empty report form can submit; a moderator on the         *)
(* Moderator tab can approve every pending item; a student with the sheet  *)
(* open on an UNCLAIMED item of somebody else can claim; a moderator with  *)
(* the sheet open can mark returned.  And each of these steps leaves the   *)
(* status the sequence names: the submitted item is PENDING_APPROVAL and   *)
(* owned by the submitter, the approved item UNCLAIMED, the claimed item   *)
(* CLAIM_REQUESTED with exactly one PENDING claim, the claimant's, and the *)
(* item marked returned RETURNED.                                          *)
C23_LifecycleIsExecutable ==
    /\ [](/\ (/\ currentUser.role = "STUDENT" /\ pageShown /\ activeTab = "POST"
              /\ newItem = EmptyDraft /\ rnd < MaxPosts)
             => \A d \in ValidDrafts : ENABLED FillAndPost(d)
          /\ (isAdmin(currentUser) /\ pageShown /\ activeTab = "ADMIN")
             => \A it \in elems(items) :
                   it.status = PENDING_APPROVAL => ENABLED Approve(it)
          /\ (/\ currentUser.role = "STUDENT" /\ sheetShown
              /\ selectedItem.status = UNCLAIMED
              /\ selectedItem.userId # currentUser.id
              /\ claimForm = EmptyClaimForm)
             => \A f \in ValidClaimForms : ENABLED FillAndClaim(f)
          /\ (isAdmin(currentUser) /\ sheetShown) => ENABLED MarkReturned)
    /\ [][/\ \A d \in ValidDrafts :
                FillAndPost(d) =>
                    /\ Head(items').status = PENDING_APPROVAL
                    /\ Head(items').userId = currentUser.id
          /\ \A it \in elems(items) :
                Approve(it) => itemById(items', it.id).status = UNCLAIMED
          /\ \A f \in ValidClaimForms :
                (/\ FillAndClaim(f)
                 /\ itemById(items, selectedItem.id) = selectedItem
                 /\ selectedItem.claims = <<>>)
                => /\ itemById(items', selectedItem.id).status = CLAIM_REQUESTED
                   /\ itemById(items', selectedItem.id).claims =
                          <<[userId |-> currentUser.id, userEmail |-> currentUser.email,
                             message |-> f.message, contact |-> f.contact,
                             status |-> "PENDING"]>>
          /\ (MarkReturned /\ selectedItem.id \in ids(items))
                => itemById(items', selectedItem.id).status = RETURNED]_vars

\* the end of the sequence: the report student A submitted at time 0 is
\* RETURNED, holds exactly one PENDING claim, by student B who logged in at
\* time 1, and a moderator is logged in
C23_Witness ==
    /\ isAdmin(currentUser)
    /\ LET it == itemById(items, randomId(0))
       IN  /\ it.userId = userIdOf("STUDENT", 0)
           /\ it.status = RETURNED
           /\ Len(it.claims) = 1
           /\ it.claims[1].userId = userIdOf("STUDENT", 1)
           /\ it.claims[1].status = "PENDING"

\* a claim an item could already hold
EarlierClaim ==
    [userId |-> userIdOf("STUDENT", 0), userEmail |-> "a@uni.edu",
     message |-> <<"m", "y">>, contact |-> <<"c">>, status |-> "PENDING"]

(* C24: every step that submits a claim on an item of the item list leaves *)
(* that item with exactly one claim more, at the end of its claims: a      *)
(* PENDING claim with the id and the email of the logged-in user and the   *)
(* message and contact of the form; the claims it held before are          *)
(* unchanged and in front; its status is CLAIM_REQUESTED.  The same holds  *)
(* for handleClaimSubmit's computation on an item that already holds a     *)
(* claim.                                                                  *)
C24_ClaimAppendsOnePendingClaim ==
    [][\A f \in ValidClaimForms :
          FillAndClaim(f) =>
              LET new == [userId |-> currentUser.id, userEmail |-> currentUser.email,
                          message |-> f.message, contact |-> f.contact,
                          status |-> "PENDING"]
              IN  /\ \A it \in elems(items) :
                        it.id = selectedItem.id =>
                            /\ itemById(items', it.id).claims = Append(it.claims, new)
                            /\ itemById(items', it.id).status = CLAIM_REQUESTED
                  /\ \A it \in elems(items) :
                        LET held == [it EXCEPT !.claims = <<EarlierClaim>>]
                            after == handleClaimSubmitItems(
                                         <<held>>, held, newClaim(f, currentUser))
                        IN  /\ after[1].claims = <<EarlierClaim, new>>
                            /\ after[1].status = CLAIM_REQUESTED]_vars

\* a moderator has just claimed item '2' of another user: the sheet is
\* closed, the form is empty, and the claim carries the moderator's id and
\* email
C24_Witness ==
    /\ isAdmin(currentUser)
    /\ selectedItem = NoItem
    /\ claimForm = EmptyClaimForm
    /\ LET it == itemById(items, 2)
       IN  /\ it.status = CLAIM_REQUESTED
           /\ Len(it.claims) = 1
           /\ it.claims[1].userId = currentUser.id
           /\ it.claims[1].userEmail = currentUser.email
           /\ it.claims[1].status = "PENDING"

\* the ids of the items this step changes or removes
touchedIds ==
    {id \in ids(items) : id \notin ids(items') \/ itemById(items', id) # itemById(items, id)}

\* the fields of an item that are not its status
besideStatus(it) == [it EXCEPT !.status = "NONE"]

(* C25: every step changes or removes at most one item of the item list,   *)
(* the one the operation is aimed at, and leaves every other item as it    *)
(* was in every field; a submit leaves every item as it was; a step that   *)
(* approves or marks returned changes the status of its target and nothing *)
(* else of it; and no step changes the id or the owner id of an item that  *)
(* stays in the list.                                                      *)
C25_OperationsTouchOneItem ==
    [][items' # items =>
          /\ Cardinality(touchedIds) <= 1
          /\ Len(items') > Len(items) => touchedIds = {}
          /\ (MarkReturned \/ DeletePermanently
              \/ \E f \in ValidClaimForms : FillAndClaim(f))
                => touchedIds \subseteq {selectedItem.id}
          /\ \A it \in elems(items) :
                (Approve(it) \/ Reject(it)) => touchedIds \subseteq {it.id}
          /\ \A it \in elems(items) :
                (Approve(it) \/ (MarkReturned /\ selectedItem.id = it.id))
                => besideStatus(itemById(items', it.id)) = besideStatus(it)
          /\ \A id \in ids(items) \cap ids(items') :
                itemById(items', id).userId = itemById(items, id).userId]_vars

\* report '3' was approved and item '1' claimed, and item '2' is as it was
\* at the start
C25_Witness ==
    /\ itemById(items, 3).status = UNCLAIMED
    /\ itemById(items, 1).status = CLAIM_REQUESTED
    /\ itemById(items, 2) = INITIAL_ITEMS[2]
    /\ Len(items) = Len(INITIAL_ITEMS) + 1

\* the place of a status in PENDING_APPROVAL < UNCLAIMED < CLAIM_REQUESTED < RETURNED
statusRank(status) ==
    CASE status = PENDING_APPROVAL -> 1
      [] status = UNCLAIMED -> 2
      [] status = CLAIM_REQUESTED -> 3
      [] status = RETURNED -> 4
      [] OTHER -> 0

(* C26: across every step the status rank of an item that stays in the    *)
(* item list does not decrease; a RETURNED item stays RETURNED.            *)
C26_StatusOnlyMovesForward ==
    [][\A id \in ids(items) \cap ids(items') :
          statusRank(itemById(items', id).status) >=
              statusRank(itemById(items, id).status)]_vars

(* C27: in every reachable state every item that is CLAIM_REQUESTED holds  *)
(* at least one claim, and every item that holds a claim is                *)
(* CLAIM_REQUESTED or RETURNED.                                            *)
C27_ClaimsGoWithStatus ==
    \A it \in elems(items) :
        /\ it.status = CLAIM_REQUESTED => it.claims # <<>>
        /\ it.claims # <<>> => it.status \in {CLAIM_REQUESTED, RETURNED}

\* a moderator looks at the Moderator tab while one item holds a claim and
\* is RETURNED, another holds a claim and is CLAIM_REQUESTED, and a report
\* without claims waits for approval
C27_Witness ==
    /\ isAdmin(currentUser) /\ pageShown /\ activeTab = "ADMIN"
    /\ \E it \in elems(items) : it.claims # <<>> /\ it.status = RETURNED
    /\ \E it \in elems(items) : it.claims # <<>> /\ it.status = CLAIM_REQUESTED
    /\ \E it \in elems(pendingItems(items)) : it.claims = <<>>

(* C28: in every reachable state every item holds at most one claim, and   *)
(* no step appends a claim to an item that holds one already.              *)
C28_AtMostOneClaim ==
    /\ [](\A it \in elems(items) : Len(it.claims) <= 1)
    /\ [][items' # items =>
             \A id \in ids(items) \cap ids(items') :
                 Len(itemById(items', id).claims) > Len(itemById(items, id).claims)
                    => itemById(items, id).claims = <<>>]_vars

\* a user who is neither the owner nor the claimant has the sheet open on
\* an item that holds a claim and is CLAIM_REQUESTED: no claim form is shown
C28_Witness ==
    /\ sheetShown
    /\ selectedItem = itemById(items, selectedItem.id)
    /\ selectedItem.status = CLAIM_REQUESTED
    /\ Len(selectedItem.claims) = 1
    /\ selectedItem.claims[1].userId # currentUser.id
    /\ selectedItem.userId # currentUser.id
    /\ ~claimFormShown(selectedItem, currentUser)

\* s is the beginning of t
isPrefix(s, t) == Len(s) <= Len(t) /\ SubSeq(t, 1, Len(s)) = s

(* C29: in every reachable state every claim has status PENDING; across    *)
(* every step the claims of an item that stays in the item list stay as    *)
(* they were (claimant, message, contact and status), with at most new     *)
(* ones after them; so a claim leaves only with its item.                  *)
C29_ClaimsNeverChange ==
    /\ [](\A it \in elems(items) :
             \A k \in DOMAIN it.claims : it.claims[k].status = "PENDING")
    /\ [][items' # items =>
             \A id \in ids(items) \cap ids(items') :
                 isPrefix(itemById(items, id).claims, itemById(items', id).claims)]_vars

\* an item was claimed and then marked returned, and its claim is still the
\* PENDING claim that was submitted; another claimed item was deleted
C29_Witness ==
    /\ \E it \in elems(items) :
          /\ it.status = RETURNED
          /\ Len(it.claims) = 1
          /\ it.claims[1].status = "PENDING"
          /\ it.claims[1].message = <<"m", "y">>
    /\ Len(items) < Len(INITIAL_ITEMS)

(* C30: a step in which a Text Assist call comes back while the draft is   *)
(* the fresh one the submit left (a report was submitted, the form was     *)
(* left for My Trace, the draft is empty, and an enhance call that comes   *)
(* back carries the description of the submitted report) leaves the draft  *)
(* as it is: description empty, category Other.                            *)
C30_LateAssistLeavesFreshDraft ==
    [][\A i \in DOMAIN aiCalls :
          (/\ returnStep_ai(i)
           /\ rnd > 0
           /\ activeTab = "MY_TRACE"
           /\ newItem = EmptyDraft
           /\ aiCalls[i].kind = "ENHANCE" => aiCalls[i].text = Head(items).description)
          => newItem' = EmptyDraft]_vars

(* C31: in every reachable state isAiLoading is TRUE exactly when at least *)
(* one Text Assist call is awaited, and at most one enhance call is        *)
(* awaited.                                                                *)
C31_LoadingFlagTracksCalls ==
    /\ isAiLoading <=> aiCalls # <<>>
    /\ Cardinality({i \in DOMAIN aiCalls : aiCalls[i].kind = "ENHANCE"}) <= 1

\* the role whose login produced this user id ('u-' or 'a-' + Date.now())
roleOfId(id) ==
    CASE id[1] = "u-" -> "STUDENT"
      [] id[1] = "a-" -> "ADMIN"
      [] OTHER -> "NONE"

(* C32: the only email of the model is a@uni.edu, so every submitted item  *)
(* whose owner id came from a login in some role was submitted by that     *)
(* email in that role.  In every reachable state where a user is logged in *)
(* in a role, every such item of that role has the logged-in user's id as  *)
(* its owner id: it is in My Reports and the claim form is not offered on  *)
(* it.                                                                     *)
C32_IdentityIsStable ==
    loggedIn =>
        \A it \in elems(items) :
            (submitted(it) /\ roleOfId(it.userId) = currentUser.role)
            => /\ it.userId = currentUser.id
               /\ it \in elems(myItems)
               /\ ~claimFormShown(it, currentUser)

====
